---- MODULE Spec2Model ----
(***************************************************************************)
(* The August integration entry point (homeassistant/components/august/    *)
(* __init__.py) and the ZHA binary sensor exercised by                     *)
(* tests/components/zha/test_binary_sensor.py.                             *)
(*                                                                         *)
(* Spec       : async_setup_entry / async_setup_august / async_unload_entry*)
(*              run for two config entries.  One action per segment of the *)
(*              coroutine between two awaits (asyncio runs such a segment  *)
(*              without interleaving), plus one action for an awaited      *)
(*              collaborator raising.                                      *)
(* SpecRemove : async_remove_config_entry_device applied to drawn inputs.  *)
(* SpecZha    : the binary sensor entity under traffic changes, reports,   *)
(*              zone status commands and rejoin.                           *)
(***************************************************************************)
EXTENDS FiniteSets, Integers, Sequences, TLC

VARIABLES pc, entry_data, initial_data, calls, completed, runtime_data,
          on_unload, bus_listeners, raised, outcome, unload_result,
          rm_identifiers, rm_devices, rm_result,
          zha_kind, zha_available, zha_raw, zha_state, zha_last

augustVars == <<pc, entry_data, initial_data, calls, completed, runtime_data,
                on_unload, bus_listeners, raised, outcome, unload_result>>
removeVars == <<rm_identifiers, rm_devices, rm_result>>
zhaVars == <<zha_kind, zha_available, zha_raw, zha_state, zha_last>>
vars == <<augustVars, removeVars, zhaVars>>

(***************************************************************************)
(* Bounds and input sets                                                   *)
(***************************************************************************)
MaxVal == 2
NumDeviceIds == 2
MaxStatus == 1023
MaxAttrValue == 2

Entries == {"e1", "e2"}
Values == 1..MaxVal

CONF_PASSWORD == "password"
CONF_USERNAME == "username"
EVENT_HOMEASSISTANT_STOP == "homeassistant_stop"
AUGUST_DOMAIN == "august"

Keys == {CONF_PASSWORD, CONF_USERNAME}

\* every dict an entry's data can be over Keys
Dicts == UNION {[S -> Values] : S \in SUBSET Keys}

(***************************************************************************)
(* Exceptions.  An exception is modelled by its class.                     *)
(***************************************************************************)
AuthExceptions == {"RequireValidation", "InvalidAuth"}
TimeoutExceptions == {"TimeoutError"}
ApiExceptions == {"AugustApiAIOHTTPError", "ClientResponseError", "CannotConnect"}
\* classes no except clause of async_setup_entry names
OtherExceptions == {"ValueError", "CancelledError", "ConfigEntryNotReady"}
ExceptionClasses ==
    AuthExceptions \cup TimeoutExceptions \cup ApiExceptions \cup OtherExceptions

NoException == [cls |-> "none", step |-> "none"]
NoOutcome == [kind |-> "none", exc |-> "none", cause |-> "none", message |-> ""]
ReturnTrue == [kind |-> "return", exc |-> "none", cause |-> "none", message |-> ""]

\* `raise X(message) from err`
RaiseFrom(exc, message, err) ==
    [kind |-> "raise", exc |-> exc, cause |-> err, message |-> message]

\* an exception no except clause matches leaves the coroutine as it is
Propagate(err) == [kind |-> "raise", exc |-> err, cause |-> "none", message |-> ""]

\* InvalidAuth listed with the connection errors
C1_mut_HandleException(err) ==
    IF err = "RequireValidation" THEN RaiseFrom("ConfigEntryAuthFailed", "", err)
    ELSE IF err \in TimeoutExceptions
    THEN RaiseFrom("ConfigEntryNotReady", "Timed out connecting to august api", err)
    ELSE IF err \in ApiExceptions \cup {"InvalidAuth"}
    THEN RaiseFrom("ConfigEntryNotReady", "", err)
    ELSE Propagate(err)

\* CannotConnect missing from the last except clause
C2_mut_HandleException(err) ==
    IF err \in AuthExceptions THEN RaiseFrom("ConfigEntryAuthFailed", "", err)
    ELSE IF err \in TimeoutExceptions
    THEN RaiseFrom("ConfigEntryNotReady", "Timed out connecting to august api", err)
    ELSE IF err \in {"AugustApiAIOHTTPError", "ClientResponseError"}
    THEN RaiseFrom("ConfigEntryNotReady", "", err)
    ELSE Propagate(err)

\* the last clause written as a bare `except Exception`
C3_mut_HandleException(err) ==
    IF err \in AuthExceptions THEN RaiseFrom("ConfigEntryAuthFailed", "", err)
    ELSE IF err \in TimeoutExceptions
    THEN RaiseFrom("ConfigEntryNotReady", "Timed out connecting to august api", err)
    ELSE RaiseFrom("ConfigEntryNotReady", "", err)

\* the except clauses of async_setup_entry, tried in order
HandleException(err) ==
    IF err \in AuthExceptions THEN RaiseFrom("ConfigEntryAuthFailed", "", err)
    ELSE IF err \in TimeoutExceptions
    THEN RaiseFrom("ConfigEntryNotReady", "Timed out connecting to august api", err)
    ELSE IF err \in ApiExceptions THEN RaiseFrom("ConfigEntryNotReady", "", err)
    ELSE Propagate(err)

(***************************************************************************)
(* async_setup_august                                                      *)
(***************************************************************************)
\* the awaited calls, in the order of the code
AwaitSteps == {"gateway.async_setup", "gateway.async_authenticate",
               "gateway.async_refresh_access_token_if_needed",
               "data.async_setup", "async_forward_entry_setups"}

\* the copy rebuilt from the keys alone, the values lost
C9_mut_RemovePassword(d) == [k \in DOMAIN d \ {CONF_PASSWORD} |-> 1]

\* config_data = entry.data.copy(); del config_data[CONF_PASSWORD]
RemovePassword(d) == [k \in DOMAIN d \ {CONF_PASSWORD} |-> d[k]]

\* the update made only for entries that also hold a username
C5_mut_UpdateEntryCalls(d) ==
    IF CONF_PASSWORD \in DOMAIN d /\ CONF_USERNAME \in DOMAIN d
    THEN <<"async_update_entry">> ELSE <<>>

\* the host call made by `if CONF_PASSWORD in entry.data:`
UpdateEntryCalls(d) ==
    IF CONF_PASSWORD \in DOMAIN d THEN <<"async_update_entry">> ELSE <<>>

\* entry.data after the `if CONF_PASSWORD in entry.data:` block
DataAfterGatewaySetup(d) ==
    IF CONF_PASSWORD \in DOMAIN d THEN RemovePassword(d) ELSE d

\* data.async_stop not registered as an unload callback
C10_mut_UnloadCallbacks == <<"remove_stop_listener">>

\* the callbacks handed to entry.async_on_unload, in order
UnloadCallbacks == <<"remove_stop_listener", "data.async_stop">>

\* the calls made once the token refresh has returned
CallsAfterRefresh ==
    <<"AugustData", "hass.bus.async_listen", "entry.async_on_unload",
      "entry.async_on_unload", "data.async_setup">>

\* async_setup_entry up to its first await: session, gateway, gateway.async_setup
SetupEntry(e) ==
    /\ pc[e] = "not_started"
    /\ pc' = [pc EXCEPT ![e] = "gateway.async_setup"]
    /\ calls' = [calls EXCEPT ![e] =
                   <<"async_create_august_clientsession", "AugustGateway",
                     "gateway.async_setup">>]
    /\ UNCHANGED <<entry_data, initial_data, completed, runtime_data, on_unload,
                   bus_listeners, raised, outcome, unload_result>>

\* gateway.async_setup returned: drop the password, call authenticate
GatewaySetupReturns(e) ==
    /\ pc[e] = "gateway.async_setup"
    /\ completed' = [completed EXCEPT ![e] = Append(@, pc[e])]
    /\ entry_data' = [entry_data EXCEPT ![e] = DataAfterGatewaySetup(@)]
    /\ calls' = [calls EXCEPT ![e] =
                   @ \o UpdateEntryCalls(entry_data[e])
                     \o <<"gateway.async_authenticate">>]
    /\ pc' = [pc EXCEPT ![e] = "gateway.async_authenticate"]
    /\ UNCHANGED <<initial_data, runtime_data, on_unload, bus_listeners, raised,
                   outcome, unload_result>>

\* authenticate returned and the token refresh is left out
C4_mut_AuthenticateReturns(e) ==
    /\ pc[e] = "gateway.async_authenticate"
    /\ completed' = [completed EXCEPT ![e] = Append(@, pc[e])]
    /\ runtime_data' = [runtime_data EXCEPT ![e] = "AugustData"]
    /\ bus_listeners' = bus_listeners \cup
          {[event |-> EVENT_HOMEASSISTANT_STOP, callback |-> "data.async_stop",
            entry |-> e]}
    /\ on_unload' = [on_unload EXCEPT ![e] = @ \o UnloadCallbacks]
    /\ calls' = [calls EXCEPT ![e] = @ \o CallsAfterRefresh]
    /\ pc' = [pc EXCEPT ![e] = "data.async_setup"]
    /\ UNCHANGED <<entry_data, initial_data, raised, outcome, unload_result>>

\* gateway.async_authenticate returned: call the token refresh
AuthenticateReturns(e) ==
    /\ pc[e] = "gateway.async_authenticate"
    /\ completed' = [completed EXCEPT ![e] = Append(@, pc[e])]
    /\ calls' = [calls EXCEPT ![e] =
                   Append(@, "gateway.async_refresh_access_token_if_needed")]
    /\ pc' = [pc EXCEPT ![e] = "gateway.async_refresh_access_token_if_needed"]
    /\ UNCHANGED <<entry_data, initial_data, runtime_data, on_unload,
                   bus_listeners, raised, outcome, unload_result>>

\* the token refresh returned: runtime data, unload callbacks, call data.async_setup
RefreshReturns(e) ==
    /\ pc[e] = "gateway.async_refresh_access_token_if_needed"
    /\ completed' = [completed EXCEPT ![e] = Append(@, pc[e])]
    /\ runtime_data' = [runtime_data EXCEPT ![e] = "AugustData"]
    /\ bus_listeners' = bus_listeners \cup
          {[event |-> EVENT_HOMEASSISTANT_STOP, callback |-> "data.async_stop",
            entry |-> e]}
    /\ on_unload' = [on_unload EXCEPT ![e] = @ \o UnloadCallbacks]
    /\ calls' = [calls EXCEPT ![e] = @ \o CallsAfterRefresh]
    /\ pc' = [pc EXCEPT ![e] = "data.async_setup"]
    /\ UNCHANGED <<entry_data, initial_data, raised, outcome, unload_result>>

\* data.async_setup returned: forward the platforms
DataSetupReturns(e) ==
    /\ pc[e] = "data.async_setup"
    /\ completed' = [completed EXCEPT ![e] = Append(@, pc[e])]
    /\ calls' = [calls EXCEPT ![e] = Append(@, "async_forward_entry_setups")]
    /\ pc' = [pc EXCEPT ![e] = "async_forward_entry_setups"]
    /\ UNCHANGED <<entry_data, initial_data, runtime_data, on_unload,
                   bus_listeners, raised, outcome, unload_result>>

\* async_forward_entry_setups returned: return True
ForwardReturns(e) ==
    /\ pc[e] = "async_forward_entry_setups"
    /\ completed' = [completed EXCEPT ![e] = Append(@, pc[e])]
    /\ outcome' = [outcome EXCEPT ![e] = ReturnTrue]
    /\ pc' = [pc EXCEPT ![e] = "returned"]
    /\ UNCHANGED <<entry_data, initial_data, calls, runtime_data, on_unload,
                   bus_listeners, raised, unload_result>>

\* the awaited call raises err: the try of async_setup_entry decides the outcome
StepRaises(e, err) ==
    /\ pc[e] \in AwaitSteps
    /\ raised' = [raised EXCEPT ![e] = [cls |-> err, step |-> pc[e]]]
    /\ outcome' = [outcome EXCEPT ![e] = HandleException(err)]
    /\ pc' = [pc EXCEPT ![e] = "raised"]
    /\ UNCHANGED <<entry_data, initial_data, calls, completed, runtime_data,
                   on_unload, bus_listeners, unload_result>>

\* async_unload_entry: the result of async_unload_platforms, whatever it is
UnloadEntry(e, ok) ==
    /\ pc[e] = "returned"
    /\ unload_result[e] = "none"
    /\ unload_result' = [unload_result EXCEPT ![e] = IF ok THEN "True" ELSE "False"]
    /\ UNCHANGED <<pc, entry_data, initial_data, calls, completed, runtime_data,
                   on_unload, bus_listeners, raised, outcome>>

InitAugust ==
    /\ pc = [e \in Entries |-> "not_started"]
    /\ entry_data \in [Entries -> Dicts]
    /\ initial_data = entry_data
    /\ calls = [e \in Entries |-> <<>>]
    /\ completed = [e \in Entries |-> <<>>]
    /\ runtime_data = [e \in Entries |-> "unset"]
    /\ on_unload = [e \in Entries |-> <<>>]
    /\ bus_listeners = {}
    /\ raised = [e \in Entries |-> NoException]
    /\ outcome = [e \in Entries |-> NoOutcome]
    /\ unload_result = [e \in Entries |-> "none"]

IdleAugust ==
    /\ pc = [e \in Entries |-> "not_started"]
    /\ entry_data = [e \in Entries |-> <<>>]
    /\ initial_data = entry_data
    /\ calls = [e \in Entries |-> <<>>]
    /\ completed = [e \in Entries |-> <<>>]
    /\ runtime_data = [e \in Entries |-> "unset"]
    /\ on_unload = [e \in Entries |-> <<>>]
    /\ bus_listeners = {}
    /\ raised = [e \in Entries |-> NoException]
    /\ outcome = [e \in Entries |-> NoOutcome]
    /\ unload_result = [e \in Entries |-> "none"]

(***************************************************************************)
(* async_remove_config_entry_device                                        *)
(***************************************************************************)
DeviceIds == 1..NumDeviceIds
\* a device is truthy, None is not
None == <<>>
DeviceDetail(device_id) == <<"DeviceDetail", device_id>>
IdentifierDomains == {AUGUST_DOMAIN, "zha"}
Identifiers == IdentifierDomains \X DeviceIds

\* config_entry.runtime_data.get_device: the device of that id, or None
GetDevice(devices, device_id) ==
    IF device_id \in devices THEN DeviceDetail(device_id) ELSE None

\* the domain of the identifier not looked at
C6_mut_async_remove_config_entry_device(identifiers, devices) ==
    ~ \E identifier \in identifiers : GetDevice(devices, identifier[2]) # None

\* not any(identifier for identifier in identifiers if ... and ...)
async_remove_config_entry_device(identifiers, devices) ==
    ~ \E identifier \in identifiers :
         /\ identifier[1] = AUGUST_DOMAIN
         /\ GetDevice(devices, identifier[2]) # None

RemoveConfigEntryDevice ==
    /\ rm_result = "none"
    /\ rm_result' = IF async_remove_config_entry_device(rm_identifiers, rm_devices)
                    THEN "True" ELSE "False"
    /\ UNCHANGED <<rm_identifiers, rm_devices, augustVars, zhaVars>>

InitRemove ==
    /\ rm_identifiers \in SUBSET Identifiers
    /\ rm_devices \in SUBSET DeviceIds
    /\ rm_result = "none"

IdleRemove ==
    /\ rm_identifiers = {}
    /\ rm_devices = {}
    /\ rm_result = "none"

(***************************************************************************)
(* The ZHA binary sensor entity driven by test_binary_sensor               *)
(***************************************************************************)
STATE_ON == "on"
STATE_OFF == "off"
STATE_UNAVAILABLE == "unavailable"

ZhaKinds == {"ias_zone", "occupancy"}
Statuses == 0..MaxStatus
AttrIds == {0, 1, 2}
AttrValues == 0..MaxAttrValue

\* the attribute the entity reads has no cached value yet
NoRaw == [known |-> FALSE, value |-> 0]
Raw(v) == [known |-> TRUE, value |-> v]

RECURSIVE BitAnd(_, _)
BitAnd(a, b) ==
    IF a = 0 \/ b = 0 THEN 0
    ELSE (a % 2) * (b % 2) + 2 * BitAnd(a \div 2, b \div 2)

\* the zone status taken whole, without the alarm bit mask
C8_mut_Parse(kind, value) == value # 0

\* the value of the attribute as a boolean; an IAS zone uses the alarm bits only
Parse(kind, value) ==
    IF kind = "ias_zone" THEN BitAnd(value, 3) # 0 ELSE value # 0

IsOn(kind, raw) == IF ~raw.known THEN FALSE ELSE Parse(kind, raw.value)

\* the state the entity writes to the state machine
EntityState(kind, available, raw) ==
    IF ~available THEN STATE_UNAVAILABLE
    ELSE IF IsOn(kind, raw) THEN STATE_ON ELSE STATE_OFF

\* async_enable_traffic(hass, [zha_device], enabled=enabled).  The test changes
\* the traffic only before any message (lines 135-142): it shows the entity
\* unavailable while disabled and off once re-enabled with no message seen.
\* Whether the value of the last message survives the change is shown
\* nowhere, so it either stays or is lost.
EnableTraffic(enabled) ==
    /\ zha_available' = enabled
    /\ zha_raw' \in {zha_raw, NoRaw}
    /\ zha_state' = EntityState(zha_kind, enabled, zha_raw')
    /\ zha_last' = IF enabled THEN "enable" ELSE "disable"
    /\ UNCHANGED zha_kind

\* send_attributes_report(hass, cluster, attrs) on the occupancy cluster
AttributesReport(attrs) ==
    /\ zha_kind = "occupancy"
    /\ zha_raw' = Raw(attrs[0])
    /\ zha_state' = EntityState(zha_kind, zha_available, zha_raw')
    /\ zha_last' = "report"
    /\ UNCHANGED <<zha_kind, zha_available>>

\* cluster.listener_event("cluster_command", 1, 0, [status]) on the IAS zone cluster
ZoneStatusChange(status) ==
    /\ zha_kind = "ias_zone"
    /\ zha_raw' = Raw(status)
    /\ zha_state' = EntityState(zha_kind, zha_available, zha_raw')
    /\ zha_last' = "cluster_command"
    /\ UNCHANGED <<zha_kind, zha_available>>

\* async_test_rejoin(hass, zigpy_device, [cluster], reporting)
Rejoin ==
    /\ zha_available' = TRUE
    /\ zha_state' = EntityState(zha_kind, TRUE, zha_raw)
    /\ zha_last' = "rejoin"
    /\ UNCHANGED <<zha_kind, zha_raw>>

\* zha_device_joined_restored(zigpy_device): the entity of a joined device
InitZha ==
    /\ zha_kind \in ZhaKinds
    /\ zha_available = TRUE
    /\ zha_raw = NoRaw
    /\ zha_state = EntityState(zha_kind, TRUE, NoRaw)
    /\ zha_last = "joined"

IdleZha ==
    /\ zha_kind = "ias_zone"
    /\ zha_available = TRUE
    /\ zha_raw = NoRaw
    /\ zha_state = STATE_OFF
    /\ zha_last = "joined"

(***************************************************************************)
(* Specifications                                                          *)
(***************************************************************************)
Init == InitAugust /\ IdleRemove /\ IdleZha

Next ==
    \/ \E e \in Entries : SetupEntry(e) /\ UNCHANGED <<removeVars, zhaVars>>
    \/ \E e \in Entries : GatewaySetupReturns(e) /\ UNCHANGED <<removeVars, zhaVars>>
    \/ \E e \in Entries : AuthenticateReturns(e) /\ UNCHANGED <<removeVars, zhaVars>>
    \/ \E e \in Entries : RefreshReturns(e) /\ UNCHANGED <<removeVars, zhaVars>>
    \/ \E e \in Entries : DataSetupReturns(e) /\ UNCHANGED <<removeVars, zhaVars>>
    \/ \E e \in Entries : ForwardReturns(e) /\ UNCHANGED <<removeVars, zhaVars>>
    \/ \E e \in Entries, err \in ExceptionClasses :
          StepRaises(e, err) /\ UNCHANGED <<removeVars, zhaVars>>
    \/ \E e \in Entries, ok \in BOOLEAN :
          UnloadEntry(e, ok) /\ UNCHANGED <<removeVars, zhaVars>>

Spec == Init /\ [][Next]_vars

InitR == IdleAugust /\ InitRemove /\ IdleZha
NextRemove == RemoveConfigEntryDevice
SpecRemove == InitR /\ [][NextRemove]_vars

InitZ == IdleAugust /\ IdleRemove /\ InitZha
NextZha ==
    \/ \E enabled \in BOOLEAN :
          EnableTraffic(enabled) /\ UNCHANGED <<augustVars, removeVars>>
    \/ \E attrs \in [AttrIds -> AttrValues] :
          AttributesReport(attrs) /\ UNCHANGED <<augustVars, removeVars>>
    \/ \E status \in Statuses :
          ZoneStatusChange(status) /\ UNCHANGED <<augustVars, removeVars>>
    \/ Rejoin /\ UNCHANGED <<augustVars, removeVars>>
SpecZha == InitZ /\ [][NextZha]_vars

(***************************************************************************)
(* Properties of async_setup_entry / async_setup_august (Spec)             *)
(***************************************************************************)
Range(s) == {s[i] : i \in 1..Len(s)}
IsPrefix(s, t) == Len(s) <= Len(t) /\ \A i \in 1..Len(s) : s[i] = t[i]
Positions(s, x) == {i \in 1..Len(s) : s[i] = x}

\* the collaborators of the setup routine, in the order the routine names them
OrderedSteps ==
    <<"gateway.async_setup", "gateway.async_authenticate",
      "gateway.async_refresh_access_token_if_needed", "AugustData",
      "data.async_setup", "async_forward_entry_setups">>
IsOrderedStep(x) == x \in Range(OrderedSteps)
IsNotUpdateEntry(x) == x # "async_update_entry"

\* C1: a RequireValidation or InvalidAuth raised by any awaited step ends
\* async_setup_entry with ConfigEntryAuthFailed raised from it, never with True
\* and never with ConfigEntryNotReady.
C1_AuthErrorsRaiseAuthFailed ==
    \A e \in Entries :
        raised[e].cls \in {"RequireValidation", "InvalidAuth"} =>
            /\ outcome[e].kind = "raise"
            /\ outcome[e].exc = "ConfigEntryAuthFailed"
            /\ outcome[e].cause = raised[e].cls

C1_Witness ==
    /\ raised["e1"] = [cls |-> "InvalidAuth", step |-> "async_forward_entry_setups"]
    /\ outcome["e1"].exc = "ConfigEntryAuthFailed"
    /\ raised["e2"] = [cls |-> "RequireValidation", step |-> "gateway.async_setup"]
    /\ outcome["e2"].exc = "ConfigEntryAuthFailed"

\* C2: a TimeoutError, AugustApiAIOHTTPError, ClientResponseError or
\* CannotConnect raised by any awaited step ends async_setup_entry with
\* ConfigEntryNotReady raised from it, never with ConfigEntryAuthFailed.
C2_ConnectionErrorsRaiseNotReady ==
    \A e \in Entries :
        raised[e].cls \in {"TimeoutError", "AugustApiAIOHTTPError",
                           "ClientResponseError", "CannotConnect"} =>
            /\ outcome[e].kind = "raise"
            /\ outcome[e].exc = "ConfigEntryNotReady"
            /\ outcome[e].cause = raised[e].cls

C2_Witness ==
    /\ raised["e1"] = [cls |-> "CannotConnect", step |-> "data.async_setup"]
    /\ outcome["e1"].exc = "ConfigEntryNotReady"
    /\ raised["e2"] = [cls |-> "TimeoutError", step |-> "gateway.async_authenticate"]
    /\ outcome["e2"].exc = "ConfigEntryNotReady"
    /\ outcome["e2"].message = "Timed out connecting to august api"

\* C3: a call that ended either returned True with no step having raised, or
\* raised ConfigEntryAuthFailed or ConfigEntryNotReady from the collaborator's
\* exception, or raised the collaborator's exception itself; an exception that
\* is none of the six named classes always leaves as itself.
C3_ThreeWayTaxonomy ==
    \A e \in Entries :
        /\ outcome[e].kind = "return" =>
              /\ raised[e] = NoException
              /\ completed[e] = <<"gateway.async_setup", "gateway.async_authenticate",
                                  "gateway.async_refresh_access_token_if_needed",
                                  "data.async_setup", "async_forward_entry_setups">>
        /\ outcome[e].kind = "raise" =>
              /\ raised[e].cls # "none"
              /\ \/ outcome[e].exc = "ConfigEntryAuthFailed" /\ outcome[e].cause = raised[e].cls
                 \/ outcome[e].exc = "ConfigEntryNotReady" /\ outcome[e].cause = raised[e].cls
                 \/ outcome[e].exc = raised[e].cls /\ outcome[e].cause = "none"
        /\ raised[e].cls # "none" => outcome[e].kind = "raise"
        /\ raised[e].cls \notin {"none", "RequireValidation", "InvalidAuth", "TimeoutError",
                                "AugustApiAIOHTTPError", "ClientResponseError",
                                "CannotConnect"} =>
              /\ outcome[e].kind = "raise"
              /\ outcome[e].exc = raised[e].cls
              /\ outcome[e].cause = "none"

C3_Witness ==
    /\ raised["e1"] = [cls |-> "ValueError", step |-> "data.async_setup"]
    /\ outcome["e1"] = [kind |-> "raise", exc |-> "ValueError", cause |-> "none",
                        message |-> ""]
    /\ outcome["e2"].kind = "return"

\* C4: the collaborators are called in one fixed order, each at most once; once
\* a step has raised, it stays the last call made; runtime_data is assigned
\* only after authenticate and the token refresh returned, and the platforms
\* are forwarded only after data.async_setup returned.
C4_FixedOrderNoRetry ==
    \A e \in Entries :
        /\ IsPrefix(SelectSeq(calls[e], IsOrderedStep), OrderedSteps)
        /\ raised[e].cls # "none" =>
              /\ calls[e][Len(calls[e])] = raised[e].step
              /\ raised[e].step \notin Range(completed[e])
        /\ runtime_data[e] # "unset" =>
              {"gateway.async_authenticate",
               "gateway.async_refresh_access_token_if_needed"} \subseteq Range(completed[e])
        /\ "async_forward_entry_setups" \in Range(calls[e]) =>
              "data.async_setup" \in Range(completed[e])

C4_Witness ==
    /\ raised["e1"].step = "gateway.async_refresh_access_token_if_needed"
    /\ runtime_data["e1"] = "unset"
    /\ raised["e2"].step = "data.async_setup"
    /\ runtime_data["e2"] = "AugustData"
    /\ "async_forward_entry_setups" \notin Range(calls["e2"])

\* how far the setup of e got: the step it waits for or how it ended, and the
\* step that raised
Progress(e) == <<pc[e], raised[e].step>>

\* C5 as stated: two entries that got equally far have made the same calls,
\* whatever their data holds.
C5_SameCallsForEveryEntry ==
    \A e1, e2 \in Entries : Progress(e1) = Progress(e2) => calls[e1] = calls[e2]

\* C5 amended: two entries that got equally far have made the same calls apart
\* from async_update_entry, which is called, once and right after
\* gateway.async_setup returned, exactly for the entries whose data held the
\* password key.
C5_SameCallsExceptPasswordUpdate ==
    /\ \A e1, e2 \in Entries :
          Progress(e1) = Progress(e2) =>
              SelectSeq(calls[e1], IsNotUpdateEntry) = SelectSeq(calls[e2], IsNotUpdateEntry)
    /\ \A e \in Entries :
          /\ Positions(calls[e], "async_update_entry") =
                IF CONF_PASSWORD \in DOMAIN initial_data[e]
                   /\ "gateway.async_setup" \in Range(completed[e])
                THEN {4} ELSE {}
          /\ Len(calls[e]) >= 3 => calls[e][3] = "gateway.async_setup"

C5_Witness ==
    /\ outcome["e1"].kind = "return"
    /\ outcome["e2"].kind = "return"
    /\ CONF_PASSWORD \in DOMAIN initial_data["e1"]
    /\ CONF_PASSWORD \notin DOMAIN initial_data["e2"]
    /\ "async_update_entry" \in Range(calls["e1"])
    /\ "async_update_entry" \notin Range(calls["e2"])

\* C9: once gateway.async_setup has returned, the entry's data is its initial
\* data without the password key, every other key and value kept, also when a
\* later step fails; async_update_entry is not called for data without the
\* key; and data is untouched while gateway.async_setup has not returned,
\* also when it raises.
C9_PasswordDroppedAfterGatewaySetup ==
    \A e \in Entries :
        IF "gateway.async_setup" \in Range(completed[e])
        THEN /\ CONF_PASSWORD \notin DOMAIN entry_data[e]
             /\ DOMAIN entry_data[e] = DOMAIN initial_data[e] \ {CONF_PASSWORD}
             /\ \A k \in DOMAIN entry_data[e] : entry_data[e][k] = initial_data[e][k]
             /\ CONF_PASSWORD \notin DOMAIN initial_data[e] =>
                   /\ "async_update_entry" \notin Range(calls[e])
                   /\ entry_data[e] = initial_data[e]
        ELSE /\ entry_data[e] = initial_data[e]
             /\ "async_update_entry" \notin Range(calls[e])

C9_Witness ==
    /\ DOMAIN initial_data["e1"] = {CONF_PASSWORD, CONF_USERNAME}
    /\ initial_data["e1"][CONF_USERNAME] = 2
    /\ raised["e1"].step = "gateway.async_authenticate"
    /\ DOMAIN entry_data["e1"] = {CONF_USERNAME}
    /\ CONF_PASSWORD \in DOMAIN initial_data["e2"]
    /\ raised["e2"].step = "gateway.async_setup"
    /\ CONF_PASSWORD \in DOMAIN entry_data["e2"]

\* C10: whenever runtime_data is assigned, the remover of the stop listener and
\* data.async_stop are the entry's unload callbacks, registered before
\* data.async_setup was called, and the stop listener is on the bus; they stay
\* registered when data.async_setup or the forwarding fails; nothing is
\* registered while runtime_data is unassigned, as when authenticate or the
\* token refresh fails.
C10_UnloadCallbacksRegistered ==
    \A e \in Entries :
        IF runtime_data[e] # "unset"
        THEN /\ on_unload[e] = <<"remove_stop_listener", "data.async_stop">>
             /\ [event |-> EVENT_HOMEASSISTANT_STOP, callback |-> "data.async_stop",
                 entry |-> e] \in bus_listeners
             /\ Cardinality(Positions(calls[e], "entry.async_on_unload")) = 2
             /\ \A i \in Positions(calls[e], "entry.async_on_unload"),
                   j \in Positions(calls[e], "data.async_setup") : i < j
        ELSE /\ on_unload[e] = <<>>
             /\ \A l \in bus_listeners : l.entry # e
             /\ raised[e].step \notin {"data.async_setup", "async_forward_entry_setups"}

C10_Witness ==
    /\ raised["e1"].step = "data.async_setup"
    /\ on_unload["e1"] = <<"remove_stop_listener", "data.async_stop">>
    /\ raised["e2"].step = "gateway.async_refresh_access_token_if_needed"
    /\ on_unload["e2"] = <<>>

(***************************************************************************)
(* Property of async_remove_config_entry_device (SpecRemove)               *)
(***************************************************************************)
\* C6: the result is True exactly when no identifier of the device has the
\* August domain first and, second, an id get_device knows; identifiers of
\* other domains never count, and a device without identifiers is removable.
C6_RemovableIffNoKnownAugustIdentifier ==
    rm_result # "none" =>
        /\ rm_result = "True" <=>
              {i \in rm_identifiers : i[1] = "august" /\ i[2] \in rm_devices} = {}
        /\ rm_identifiers = {} => rm_result = "True"
        /\ (\A i \in rm_identifiers : i[1] # "august") => rm_result = "True"

C6_Witness ==
    /\ rm_result = "True"
    /\ rm_identifiers = {<<"zha", 1>>, <<"august", 2>>}
    /\ rm_devices = {1}

(***************************************************************************)
(* Properties of the ZHA binary sensor (SpecZha)                           *)
(***************************************************************************)
\* C8: after a zone status change command the state of an available IAS zone
\* sensor is on exactly when one of the two lowest bits of the status is set:
\* off for 0 and for every status with only higher bits set.
C8_AlarmBitsDecide ==
    zha_kind = "ias_zone" /\ zha_last = "cluster_command" /\ zha_available =>
        /\ zha_state = IF zha_raw.value % 4 # 0 THEN STATE_ON ELSE STATE_OFF
        /\ zha_raw.value = 0 => zha_state = STATE_OFF
        /\ zha_raw.value % 2 = 1 \/ (zha_raw.value \div 2) % 2 = 1 => zha_state = STATE_ON

C8_Witness ==
    /\ zha_kind = "ias_zone"
    /\ zha_last = "cluster_command"
    /\ zha_available
    /\ zha_raw = Raw(1020)
    /\ zha_state = STATE_OFF

====
